---- MODULE Spec2Model ----
(***************************************************************************)
(* FitFusion workout generation: the macro planner, the duration parser,   *)
(* the phase and main-exercise normalizers, the rebalance step and the     *)
(* generate_workout pipeline of backend/src/services/crew_orchestrator.py. *)
(*                                                                         *)
(* Python values are modelled as follows.                                  *)
(*   Optional[int]   <<>> is None, <<n>> is the integer n.                 *)
(*   untrusted value a record [kind, tenths, unit]:                        *)
(*        kind "none"  the key is absent or null                           *)
(*        kind "num"   an int or float, tenths = 10 * value                *)
(*        kind "str"   a string whose first decimal number is tenths/10,   *)
(*                     unit "hour" / "min" / "" is the unit word it holds  *)
(*        kind "text"  a string that holds no digit                        *)
(*   int(round(a/b)) RoundHalfEven(a, b): Python 3 rounds halves to even.  *)
(*   int(round(x * (t / T)))  PyRoundMul(x, t, T): the quotient and the    *)
(*        product are IEEE doubles, so an exact half may land on either    *)
(*        side; PyRoundMul computes the side the doubles take.             *)
(***************************************************************************)
EXTENDS Integers, Sequences, FiniteSets, TLC

VARIABLES
    pc,          \* position of the call being modelled
    request,     \* WorkoutGenerationRequest
    raw_plan,    \* what ProgramDirector.design_macro_plan returned
    macro_plan,  \* the macro plan in use (heuristic or coerced)
    plan2,       \* _coerce_macro_plan applied to macro_plan once more
    plan_contribution, \* the planner's AgentContribution, or None
    invoked,     \* the agents _gather_agent_contributions called execute_task on
    contributions, \* the AgentContribution list of the specialists
    general_result, \* what GeneralCoach.synthesize_workout returned
    payload,     \* the synthesis payload handed to _build_workout_from_payload
    workout,     \* WorkoutGenerationResponse
    result,      \* OrchestrationResult.success / error_message
    call,        \* arguments of a normalizer call
    ret,         \* what the normalizer call returned
    generation_tasks, \* the task store of api/ai_generation.py: task_id -> task record
    background_tasks, \* task_id -> position of its generate_workout_background job
    request_history   \* CrewOrchestrator.request_history

vars == <<pc, request, raw_plan, macro_plan, plan2, plan_contribution, invoked, contributions,
          general_result, payload, workout, result, call, ret,
          generation_tasks, background_tasks, request_history>>

----------------------------------------------------------------------------
(* Bounds of the model *)

MaxBlocks == 3
MaxItems == 3
MaxExercises == 3

----------------------------------------------------------------------------
(* Python helpers *)

Max(a, b) == IF a >= b THEN a ELSE b
Min(a, b) == IF a <= b THEN a ELSE b
Abs(a) == IF a >= 0 THEN a ELSE -a

None == <<>>
Some(n) == <<n>>
\* Python truthiness of an Optional[int]: None and 0 are falsy.
Truthy(o) == o # None /\ o[1] # 0
\* a or b
OrElse(a, b) == IF Truthy(a) THEN a ELSE b
\* (a or n) where n is an int
OrInt(a, n) == IF Truthy(a) THEN a[1] ELSE n

\* int(round(a / b)) for a >= 0, b > 0
RoundHalfEven(a, b) ==
    LET f == a \div b
        r == a % b
    IN  IF 2 * r < b THEN f
        ELSE IF 2 * r > b THEN f + 1
        ELSE IF f % 2 = 0 THEN f ELSE f + 1

\* the largest e with 2^e <= a / b, for a, b > 0
RECURSIVE FloorLog2(_, _)
FloorLog2(a, b) ==
    IF a >= 2 * b THEN 1 + FloorLog2(a, 2 * b)
    ELSE IF a < b THEN FloorLog2(2 * a, b) - 1
    ELSE 0

RECURSIVE Pow2(_)
Pow2(n) == IF n = 0 THEN 1 ELSE 2 * Pow2(n - 1)

\* 2^p mod m
RECURSIVE Pow2Mod(_, _)
Pow2Mod(p, m) == IF p = 0 THEN 1 % m ELSE (2 * Pow2Mod(p - 1, m)) % m

\* int(round(x * (t / T))) for x >= 0, t > 0, T > 0, as doubles compute it.
\* Off an exact half the nearest integer is beyond any float error. On an exact
\* half k + 1/2: scale = fl(t / T) has a 53-bit significand, its error is
\* rho / T units in the last place (rho below); the product x * scale is then
\* rounded to a double again, and it stays at k + 1/2 (round gives the even
\* neighbour) only if the error carried over is at most half the spacing of the
\* doubles at k + 1/2; otherwise the sign of rho decides.
PyRoundMul(x, t, T) ==
    IF (2 * x * t) % (2 * T) # T THEN RoundHalfEven(x * t, T)
    ELSE LET k == (x * t) \div T
             es == FloorLog2(t, T)
             r == ((t % T) * Pow2Mod(52 - es, T)) % T
             rho == IF 2 * r > T THEN T - r ELSE -r
             e == IF k = 0 THEN -1 ELSE FloorLog2(k, 1)
             \* spacing below 1/2 is half the spacing above it
             d == IF k = 0 /\ rho < 0 THEN e - es - 2 ELSE e - es - 1
             stays == IF d >= 0 THEN x * Abs(rho) <= T * Pow2(d)
                      ELSE x * Abs(rho) * Pow2(-d) <= T
             even == IF k % 2 = 0 THEN k ELSE k + 1
         IN  IF rho = 0 \/ stays THEN even
             ELSE IF rho > 0 THEN k + 1 ELSE k

\* int(x) of a number given in tenths: truncation toward zero
Trunc10(t) == IF t >= 0 THEN t \div 10 ELSE -((-t) \div 10)

RECURSIVE SumSeq(_)
SumSeq(s) == IF s = <<>> THEN 0 ELSE Head(s) + SumSeq(Tail(s))

\* untrusted values
Absent == [kind |-> "none", tenths |-> 0, unit |-> ""]
Num(n) == [kind |-> "num", tenths |-> 10 * n, unit |-> ""]
Float10(t) == [kind |-> "num", tenths |-> t, unit |-> ""]
Str(t, u) == [kind |-> "str", tenths |-> t, unit |-> u]
Text == [kind |-> "text", tenths |-> 0, unit |-> ""]

----------------------------------------------------------------------------
(* _parse_duration_value *)

UnitFactor(u) == IF u = "hour" THEN 3600 ELSE IF u = "min" THEN 60 ELSE 1

ParseDurationValue(value) ==
    CASE value.kind = "none" -> None
      [] value.kind = "num" -> Some(Max(0, Trunc10(value.tenths)))
      [] value.kind = "str" ->
            Some(Max(0, RoundHalfEven(value.tenths * UnitFactor(value.unit), 10)))
      [] OTHER -> None

----------------------------------------------------------------------------
(* _heuristic_macro_plan *)

TotalSeconds(req) ==
    Max(600, (IF req.duration_minutes = 0 THEN 45 ELSE req.duration_minutes) * 60)

HeuristicModalities(req) ==
    LET m0 == IF req.workout_type \in {"mixed", "hiit"}
              THEN <<"strength", "cardio">> ELSE <<req.workout_type>>
        m1 == SelectSeq(m0, LAMBDA m : m \in {"strength", "cardio", "mobility", "core", "mixed"})
    IN  IF m1 = <<>> THEN <<"strength">> ELSE m1

HeuristicMain(total_seconds, warmup, cooldown) ==
    Max(300, total_seconds - warmup - cooldown)

\* a split that gives the remainder to no block
HeuristicBlockDurationEven(block_duration, remainder, idx) == block_duration

\* line 161, idx counting from 0
HeuristicBlockDuration(block_duration, remainder, idx) ==
    block_duration + (IF idx < remainder THEN 1 ELSE 0)

HeuristicMacroPlanOf(req) ==
    LET total_seconds == TotalSeconds(req)
        warmup0 == Max(240, Min(480, (total_seconds * 12) \div 100))
        cooldown0 == Max(240, Min(540, (total_seconds * 12) \div 100))
        shrink == warmup0 + cooldown0 >= total_seconds - 120
        warmup == IF shrink THEN (total_seconds * 10) \div 100 ELSE warmup0
        cooldown == IF shrink THEN (total_seconds * 10) \div 100 ELSE cooldown0
        main == HeuristicMain(total_seconds, warmup, cooldown)
        focus_areas == IF req.focus_areas = <<>> THEN <<"full_body">> ELSE req.focus_areas
        modalities == HeuristicModalities(req)
        block_count == Max(2, Min(3, Len(focus_areas)))
        block_duration == main \div block_count
        remainder == main - block_duration * block_count
    IN  [phase_allocation |-> [warmup |-> warmup, main |-> main, cooldown |-> cooldown],
         main_blocks |->
            [i \in 1..block_count |->
                [duration_seconds |-> Num(HeuristicBlockDuration(block_duration, remainder, i - 1)),
                 focus_areas |-> <<focus_areas[((i - 1) % Len(focus_areas)) + 1]>>,
                 modality |-> modalities[((i - 1) % Len(modalities)) + 1]]],
         source |-> "heuristic_fallback"]

----------------------------------------------------------------------------
(* _coerce_macro_plan *)

\* lines 217-224: rescale the three phases, the remainder goes onto cooldown
CoercePhaseAllocation(pa, total_seconds) ==
    LET warmup == OrInt(ParseDurationValue(pa.warmup), (total_seconds * 12) \div 100)
        main == OrInt(ParseDurationValue(pa.main), (total_seconds * 76) \div 100)
        cooldown == OrInt(ParseDurationValue(pa.cooldown), (total_seconds * 12) \div 100)
        total_alloc == warmup + main + cooldown
        w2 == Max(180, PyRoundMul(warmup, total_seconds, total_alloc))
        m2 == Max(300, PyRoundMul(main, total_seconds, total_alloc))
        c2 == Max(180, PyRoundMul(cooldown, total_seconds, total_alloc))
    IN  IF total_alloc # total_seconds
        THEN [warmup |-> w2, main |-> m2, cooldown |-> c2 + (total_seconds - (w2 + m2 + c2))]
        ELSE [warmup |-> warmup, main |-> main, cooldown |-> cooldown]

BlockSeconds(b) == OrInt(ParseDurationValue(b.duration_seconds), 0)

\* The bounded drift-correction loop (lines 343-354, and again at 248-256, 474-485
\* and 510-521): visit the entries cyclically, at most 2 * len visits, moving one
\* second at a time and never taking an entry below floor.
RECURSIVE DriftLoop(_, _, _, _)
DriftLoop(durs, difference, idx, floor) ==
    IF durs = <<>> \/ difference = 0 \/ idx >= 2 * Len(durs) THEN durs
    ELSE LET k == (idx % Len(durs)) + 1
             adjust == IF difference > 0 THEN 1 ELSE -1
             candidate == durs[k] + adjust
         IN  IF candidate >= floor
             THEN DriftLoop([durs EXCEPT ![k] = candidate], difference - adjust, idx + 1, floor)
             ELSE DriftLoop(durs, difference, idx + 1, floor)

\* lines 247-256: the loop over the blocks
BlockDrift(durs, diff) == DriftLoop(durs, diff, 0, 180)

\* lines 238-256
CoerceBlocks(blocks, main) ==
    LET n == Len(blocks)
        sum0 == SumSeq([i \in 1..n |-> BlockSeconds(blocks[i])])
        block_total == IF sum0 # 0 THEN sum0 ELSE main
        scaled == [i \in 1..n |->
                      Max(180, PyRoundMul(
                          OrInt(ParseDurationValue(blocks[i].duration_seconds),
                                Max(300, main \div n)),
                          main, block_total))]
        final == BlockDrift(scaled, main - SumSeq(scaled))
    IN  IF block_total # main
        THEN [i \in 1..n |-> [blocks[i] EXCEPT !.duration_seconds = Num(final[i])]]
        ELSE blocks

DefaultModality(req) ==
    IF req.workout_type \in {"strength", "cardio", "mobility", "core", "mixed"}
    THEN req.workout_type ELSE "mixed"

CoerceMacroPlanOf(raw, req, source) ==
    LET total_seconds == TotalSeconds(req)
        pa == CoercePhaseAllocation(raw.phase_allocation, total_seconds)
        blocks == CoerceBlocks(raw.main_blocks, pa.main)
    IN  IF raw.main_blocks = <<>>
        THEN [HeuristicMacroPlanOf(req) EXCEPT !.source = "with_heuristic_blocks"]
        ELSE [phase_allocation |-> pa,
              main_blocks |->
                 [i \in 1..Len(blocks) |->
                     [blocks[i] EXCEPT
                         !.focus_areas = IF @ = <<>> THEN
                                            (IF req.focus_areas = <<>> THEN <<"full_body">>
                                             ELSE req.focus_areas)
                                         ELSE @,
                         !.modality = IF @ = "" THEN DefaultModality(req) ELSE @]],
              source |-> source]

\* a macro plan as the dict a caller would hand back to _coerce_macro_plan
AsRawPlan(plan) ==
    [kind |-> "dict",
     phase_allocation |-> [warmup |-> Num(plan.phase_allocation.warmup),
                           main |-> Num(plan.phase_allocation.main),
                           cooldown |-> Num(plan.phase_allocation.cooldown)],
     main_blocks |-> plan.main_blocks]

BlockSum(plan) ==
    SumSeq([i \in 1..Len(plan.main_blocks) |-> BlockSeconds(plan.main_blocks[i])])

AllocSum(plan) ==
    plan.phase_allocation.warmup + plan.phase_allocation.main + plan.phase_allocation.cooldown

----------------------------------------------------------------------------
(* _normalize_phase_items *)

RawItem(d, ds, dm) ==
    [isdict |-> TRUE, duration |-> d, duration_seconds |-> ds, duration_minutes |-> dm]
NotADict ==
    [isdict |-> FALSE, duration |-> Absent, duration_seconds |-> Absent,
     duration_minutes |-> Absent]

\* lines 306-312
PhaseItemDuration(raw, default_duration) ==
    LET duration_val ==
            OrElse(ParseDurationValue(raw.duration),
                   OrElse(ParseDurationValue(raw.duration_seconds),
                          ParseDurationValue(raw.duration_minutes)))
    IN  IF ~Truthy(duration_val) \/ duration_val[1] <= 0
        THEN default_duration ELSE duration_val[1]

PhaseFloor(d) == Max(20, d)

\* lines 342-354
PhaseDrift(durs, difference) == DriftLoop(durs, difference, 0, 20)

\* returns (normalized, total); target_total is an Optional[int]
NormalizePhaseItems(items, default_duration, target_total) ==
    LET dicts == SelectSeq(items, LAMBDA raw : raw.isdict)
        n == Len(dicts)
        durs0 == [i \in 1..n |-> PhaseItemDuration(dicts[i], default_duration)]
        total0 == SumSeq(durs0)
        scaled == [i \in 1..n |-> PhaseFloor(PyRoundMul(durs0[i], target_total[1], total0))]
        final == PhaseDrift(scaled, target_total[1] - SumSeq(scaled))
        durs == IF Truthy(target_total) /\ total0 > 0 /\ n > 0 THEN final ELSE durs0
    IN  [normalized |-> [i \in 1..n |-> [duration |-> durs[i], duration_seconds |-> durs[i]]],
         total |-> SumSeq(durs)]

----------------------------------------------------------------------------
(* _normalize_main_exercises *)

NoFields ==
    [isdict |-> TRUE, sets |-> Absent, rounds |-> Absent, reps |-> Absent,
     rep_range |-> Absent, work_seconds |-> Absent, work_interval_seconds |-> Absent,
     duration |-> Absent, duration_seconds_per_set |-> Absent, duration_seconds |-> Absent,
     rest_seconds |-> Absent, rest_interval_seconds |-> Absent, rest |-> Absent,
     block_duration_seconds |-> Absent, equipment |-> ""]

\* truthiness of an untrusted value: None, 0 and 0.0 are falsy, a string is not
\* (an empty string is not among the modelled values)
RawTruthy(v) == v.kind \in {"str", "text"} \/ (v.kind = "num" /\ v.tenths # 0)
RawOr(a, b) == IF RawTruthy(a) THEN a ELSE b

\* lines 371-375: int() of the sets value, 1 when it raises
ExerciseSets(raw) ==
    LET raw_sets == RawOr(raw.sets, RawOr(raw.rounds, Num(1)))
    IN  CASE raw_sets.kind = "num" -> Max(1, Trunc10(raw_sets.tenths))
          [] raw_sets.kind = "str" /\ raw_sets.unit = "" /\ raw_sets.tenths % 10 = 0 ->
                Max(1, raw_sets.tenths \div 10)
          [] OTHER -> 1

\* lines 376-384: an Optional[int]
ExerciseReps(raw) ==
    LET reps_value == RawOr(raw.reps, raw.rep_range)
    IN  CASE reps_value.kind = "str" -> Some(reps_value.tenths \div 10)
          [] reps_value.kind = "text" -> None
          [] reps_value.kind = "num" -> Some(Trunc10(reps_value.tenths))
          [] OTHER -> None

\* lines 385-388
ExerciseWorkSeconds(raw) ==
    OrElse(ParseDurationValue(raw.work_seconds),
           ParseDurationValue(raw.work_interval_seconds))

\* lines 395-398: the fallbacks of the per-set duration
DurationFallback(d0, reps) ==
    IF Truthy(d0) /\ d0[1] > 0 THEN d0[1]
    ELSE IF Truthy(reps) THEN Max(30, reps[1] * 4)
    ELSE 45

\* lines 389-398
ExerciseDuration(raw) ==
    DurationFallback(
        OrElse(ExerciseWorkSeconds(raw),
               OrElse(ParseDurationValue(raw.duration),
                      OrElse(ParseDurationValue(raw.duration_seconds_per_set),
                             ParseDurationValue(raw.duration_seconds)))),
        ExerciseReps(raw))

RestDefault(difficulty) ==
    CASE difficulty = "beginner" -> 45
      [] difficulty = "intermediate" -> 60
      [] difficulty = "advanced" -> 75
      [] OTHER -> 60

\* lines 399-405
ExerciseRest(raw, difficulty) ==
    Max(15, OrInt(OrElse(ParseDurationValue(raw.rest_seconds),
                         OrElse(ParseDurationValue(raw.rest_interval_seconds),
                                ParseDurationValue(raw.rest))),
                  RestDefault(difficulty)))

\* lines 429-435: which of reps / work_seconds the record carries
TimeBased(work_seconds, reps) == Truthy(work_seconds) /\ reps = None

\* lines 406-408
BlockDuration(bd, sets, duration_val, rest_val) ==
    IF ~Truthy(bd) \/ bd[1] <= 0
    THEN sets * duration_val + rest_val * Max(0, sets - 1)
    ELSE bd[1]

\* lines 429-457: the normalized record of the values parsed from a raw one
NormalizedRecord(sets, reps, work_seconds, duration_val, rest_val, equipment, block_duration, time_based) ==
    [sets |-> sets,
     reps |-> IF time_based THEN None ELSE reps,
     duration |-> duration_val,
     duration_seconds_per_set |-> duration_val,
     work_seconds |-> IF time_based THEN OrElse(work_seconds, Some(duration_val)) ELSE None,
     rest_seconds |-> rest_val,
     equipment |-> IF equipment = "" THEN "bodyweight" ELSE equipment,
     block_duration_seconds |-> block_duration,
     total_duration_seconds |-> block_duration,
     is_time_based |-> time_based]

\* lines 367-458: one raw record to one normalized record
NormalizeExercise(raw, difficulty) ==
    NormalizedRecord(
        ExerciseSets(raw), ExerciseReps(raw), ExerciseWorkSeconds(raw),
        ExerciseDuration(raw), ExerciseRest(raw, difficulty), raw.equipment,
        BlockDuration(ParseDurationValue(raw.block_duration_seconds), ExerciseSets(raw),
                      ExerciseDuration(raw), ExerciseRest(raw, difficulty)),
        TimeBased(ExerciseWorkSeconds(raw), ExerciseReps(raw)))

\* the rescale of a block with its floor lowered to 30 seconds
MainFloorLowered(d) == Max(30, d)

\* lines 463 and 499: no block is rescaled below 60 seconds
MainFloor(d) == Max(60, d)

\* lines 462-471: one record rescaled by target_total / total
RescaleExercise(ex, target, total) ==
    LET new_block == MainFloor(PyRoundMul(ex.total_duration_seconds, target, total))
        new_work == Max(15, PyRoundMul(ex.work_seconds[1], target, total))
    IN  IF ex.is_time_based /\ Truthy(ex.work_seconds)
        THEN [ex EXCEPT !.block_duration_seconds = new_block,
                        !.total_duration_seconds = new_block,
                        !.work_seconds = Some(new_work),
                        !.duration = new_work]
        ELSE IF ~ex.is_time_based
        THEN [ex EXCEPT !.block_duration_seconds = new_block,
                        !.total_duration_seconds = new_block,
                        !.duration = Max(30, PyRoundMul(ex.duration, target, total))]
        ELSE [ex EXCEPT !.block_duration_seconds = new_block,
                        !.total_duration_seconds = new_block]

\* lines 474-485
MainDrift(durs, difference) == DriftLoop(durs, difference, 0, 60)

WithBlocks(exs, durs) ==
    [i \in 1..Len(exs) |->
        [exs[i] EXCEPT !.block_duration_seconds = durs[i], !.total_duration_seconds = durs[i]]]

BlocksOf(exs) == [i \in 1..Len(exs) |-> exs[i].total_duration_seconds]

\* line 486: the records and the sum of their block durations
WithTotal(exs) == [normalized |-> exs, total |-> SumSeq(BlocksOf(exs))]

\* lines 474-485: the drift of the rescaled blocks against the target
MainDriftApplied(scaled, target) ==
    WithTotal(WithBlocks(scaled,
                         MainDrift(BlocksOf(scaled), target - SumSeq(BlocksOf(scaled)))))

\* lines 459-486
MainRescaled(exs0, total0, target_total) ==
    IF Truthy(target_total) /\ total0 > 0 /\ Len(exs0) > 0
    THEN MainDriftApplied(
            [i \in 1..Len(exs0) |-> RescaleExercise(exs0[i], target_total[1], total0)],
            target_total[1])
    ELSE WithTotal(exs0)

MainNormalized(exs0, target_total) ==
    MainRescaled(exs0, SumSeq(BlocksOf(exs0)), target_total)

DictsOf(items) == SelectSeq(items, LAMBDA raw : raw.isdict)

\* returns (normalized, total)
NormalizeMainExercises(exercises, difficulty, target_total) ==
    MainNormalized(
        [i \in 1..Len(DictsOf(exercises)) |->
            NormalizeExercise(DictsOf(exercises)[i], difficulty)],
        target_total)

----------------------------------------------------------------------------
(* _rebalance_main_duration *)

\* the products with the scale of line 495 left unclamped
RebalanceMulUnclamped(x, target, current) == PyRoundMul(x, target, current)

\* line 496 and the products of lines 499-507: int(round(x * scale)) with
\* scale = max(0.75, min(target / current, 1.25)); 0.75 and 1.25 are exact doubles
RebalanceMul(x, target, current) ==
    IF 4 * target < 3 * current THEN RoundHalfEven(3 * x, 4)
    ELSE IF 4 * target > 5 * current THEN RoundHalfEven(5 * x, 4)
    ELSE PyRoundMul(x, target, current)

\* line 497: abs(scale - 1.0) > 0.05 on doubles; the doubles nearest 1.05 and 0.95
\* lie more than the double 0.05 away from 1.0, so the boundary itself passes
RebalanceApplies(target, current) ==
    \/ 4 * target < 3 * current
    \/ 4 * target > 5 * current
    \/ 20 * Abs(target - current) >= current

\* lines 498-508
RebalanceExercise(ex, target, current) ==
    LET new_block == MainFloor(RebalanceMul(ex.total_duration_seconds, target, current))
        new_work == Max(15, RebalanceMul(ex.work_seconds[1], target, current))
        new_dur == Max(20, RebalanceMul(ex.duration, target, current))
    IN  IF ex.is_time_based /\ Truthy(ex.work_seconds)
        THEN [ex EXCEPT !.block_duration_seconds = new_block,
                        !.total_duration_seconds = new_block,
                        !.work_seconds = Some(new_work),
                        !.duration = new_work,
                        !.duration_seconds_per_set = new_work]
        ELSE [ex EXCEPT !.block_duration_seconds = new_block,
                        !.total_duration_seconds = new_block,
                        !.duration = new_dur,
                        !.duration_seconds_per_set = new_dur]

\* lines 510-521
RebalanceDrift(durs, difference) == DriftLoop(durs, difference, 0, 60)

\* lines 510-522: the drift of the blocks against the target
RebalanceDriftApplied(scaled, target_seconds) ==
    [exercises |->
        WithBlocks(scaled,
                   RebalanceDrift(BlocksOf(scaled),
                                  target_seconds - SumSeq(BlocksOf(scaled)))),
     current |->
        SumSeq(RebalanceDrift(BlocksOf(scaled), target_seconds - SumSeq(BlocksOf(scaled))))]

\* lines 493-522, current being the sum of line 492 or 1
RebalanceFrom(exercises, target_seconds, current) ==
    IF target_seconds <= 0 THEN [exercises |-> exercises, current |-> current]
    ELSE RebalanceDriftApplied(
            IF RebalanceApplies(target_seconds, current)
            THEN [i \in 1..Len(exercises) |->
                    RebalanceExercise(exercises[i], target_seconds, current)]
            ELSE exercises,
            target_seconds)

CurrentOr1(sum) == IF sum # 0 THEN sum ELSE 1

\* returns the exercises as the call leaves them (it edits them in place) and
\* the value it returns
RebalanceMainDuration(exercises, target_seconds) ==
    IF Len(exercises) = 0 THEN [exercises |-> exercises, current |-> 0]
    ELSE RebalanceFrom(exercises, target_seconds, CurrentOr1(SumSeq(BlocksOf(exercises))))

----------------------------------------------------------------------------
(* Values the variables hold while the call that sets them has not run *)

NoPlan ==
    [phase_allocation |-> [warmup |-> 0, main |-> 0, cooldown |-> 0],
     main_blocks |-> <<>>, source |-> "none"]
NoRawPlan ==
    [kind |-> "none",
     phase_allocation |-> [warmup |-> Absent, main |-> Absent, cooldown |-> Absent],
     main_blocks |-> <<>>]
\* a mapping without keys
EmptyMap == [k \in {} |-> <<>>]
\* a 'modifications' value: kind "dict" with its entries (key to value, a value
\* being a list of entries or one entry that is no list), or kind "list" for a
\* non-empty list in the place of the mapping
NoModifications == [kind |-> "dict", entries |-> EmptyMap]
NoPayload ==
    [warmup |-> <<>>, main_workout |-> <<>>, cooldown |-> <<>>, equipment_needed |-> {},
     safety_notes |-> <<>>, modifications |-> NoModifications]
NoWorkout ==
    [warmup |-> <<>>, exercises |-> <<>>, cooldown |-> <<>>,
     total_estimated_duration_seconds |-> None,
     phase_duration_breakdown |-> [warmup |-> 0, main |-> 0, cooldown |-> 0],
     duration_minutes |-> 0, equipment_needed |-> {}]
NoGeneralResult == [kind |-> "none", payload |-> NoPayload]
NoResult == [success |-> FALSE, error_message |-> "", agent_contributions |-> <<>>]
NoCall == [fn |-> "none"]
NoRet == [fn |-> "none"]

Request(m, wt, focus, diff) ==
    [duration_minutes |-> m, workout_type |-> wt, focus_areas |-> focus,
     difficulty_level |-> diff, available_equipment |-> {},
     experience_level |-> "intermediate", fitness_goals |-> {}, progress_history |-> FALSE]

----------------------------------------------------------------------------
(* _generate_macro_plan *)

\* an element of main_blocks that is no record (a string, a number)
NotABlock == [notdict |-> TRUE]

\* line 238: b.get(...) raises on an element of a non-empty main_blocks list
\* that is no record
CoercionRaises(raw) ==
    \E i \in 1..Len(raw.main_blocks) : "notdict" \in DOMAIN raw.main_blocks[i]

\* lines 115-125: the coerced plan and its contribution
CoercedWithContribution(plan) == [plan |-> plan, contribution |-> Some(plan)]

\* the same with line 111 letting an error record through to the coercion
GenerateMacroPlanErrorAccepted(answer, req) ==
    IF answer.kind \in {"dict", "error"} /\ ~CoercionRaises(answer)
    THEN CoercedWithContribution(CoerceMacroPlanOf(answer, req, "program_director"))
    ELSE [plan |-> HeuristicMacroPlanOf(req), contribution |-> None]

\* lines 102-129: (plan, plan contribution); answer.kind tells what
\* design_macro_plan did, "absent" that there is no program director. A value
\* that is no record raises at line 112, inside the try, as do a raising call
\* and a raising coercion: line 127 catches them all.
GenerateMacroPlanOf(answer, req) ==
    IF answer.kind = "dict" /\ ~CoercionRaises(answer)
    THEN CoercedWithContribution(CoerceMacroPlanOf(answer, req, "program_director"))
    ELSE [plan |-> HeuristicMacroPlanOf(req), contribution |-> None]

----------------------------------------------------------------------------
(* _select_relevant_agents, _create_agent_task, _gather_agent_contributions *)

\* lines 708-738; progress_history stands for the truth value of the list
SelectRelevantAgents(req) ==
    <<"preferences_manager">>
    \o (IF req.workout_type \in {"strength", "mixed"} THEN <<"strength_coach">> ELSE <<>>)
    \o (IF req.workout_type \in {"cardio", "hiit", "mixed"} THEN <<"cardio_coach">> ELSE <<>>)
    \o <<"equipment_advisor">>
    \o (IF req.duration_minutes > 45 \/ req.experience_level = "advanced"
        THEN <<"recovery_specialist">> ELSE <<>>)
    \o (IF req.fitness_goals \cap {"weight_loss", "muscle_building"} # {}
        THEN <<"nutritionist">> ELSE <<>>)
    \o (IF req.experience_level = "beginner" THEN <<"motivation_coach">> ELSE <<>>)
    \o (IF req.progress_history THEN <<"analytics_expert">> ELSE <<>>)

\* lines 740-990: _create_agent_task builds a task for these agents and returns
\* None for every other one
HasTask(agent_name) == agent_name \in {"strength_coach", "cardio_coach", "equipment_advisor"}

\* lines 674-680: the agents execute_task is called on, in order
AgentsWithTask(req) == SelectSeq(SelectRelevantAgents(req), HasTask)

NoContent ==
    [warmup |-> <<>>, cooldown |-> <<>>, exercises |-> <<>>, cardio_exercises |-> <<>>,
     intervals |-> <<>>, recommended_equipment |-> {}, safety_notes |-> <<>>,
     modifications |-> NoModifications]

\* line 689, inside the try of line 684: a call that raised produced no result
SucceededOrRaised(task_result) == task_result.kind \in {"ok", "raises"}
Succeeded(task_result) == task_result.kind = "ok"

\* lines 684-704: one turn of the loop; the call is recorded with what it did,
\* and a successful result appends a contribution
AfterTask(acc, agent_name, task_result) ==
    [invoked |-> Append(acc.invoked, [agent_name |-> agent_name, outcome |-> task_result.kind]),
     contributions |->
        IF Succeeded(task_result)
        THEN Append(acc.contributions,
                    [agent_name |-> agent_name, content |-> task_result.content])
        ELSE acc.contributions]

\* lines 683-704: the loop over agent_tasks; outcome[a] is what execute_task of
\* agent a does
RECURSIVE ExecuteAgentTasks(_, _, _)
ExecuteAgentTasks(agent_tasks, outcome, acc) ==
    IF agent_tasks = <<>> THEN acc
    ELSE ExecuteAgentTasks(Tail(agent_tasks), outcome,
                           AfterTask(acc, Head(agent_tasks), outcome[Head(agent_tasks)]))

\* lines 662-706: the calls made and the contributions returned
GatherAgentContributions(req, outcome) ==
    ExecuteAgentTasks(AgentsWithTask(req), outcome, [invoked |-> <<>>, contributions |-> <<>>])

----------------------------------------------------------------------------
(* _fallback_structured_payload *)

\* lines 1126-1137: an interval block as an exercise record
IntervalAsExercise(block) ==
    [NoFields EXCEPT !.sets = RawOr(block.rounds, Num(1)),
                     !.work_seconds = block.work_interval_seconds,
                     !.duration_seconds_per_set = block.work_interval_seconds,
                     !.rest_seconds = block.rest_interval_seconds]

\* lines 1115-1137: what one contribution adds to the main list
MainOf(contrib) ==
    (IF contrib.agent_name = "strength_coach" THEN contrib.content.exercises ELSE <<>>)
    \o (IF contrib.agent_name = "cardio_coach"
        THEN contrib.content.cardio_exercises
             \o [i \in 1..Len(contrib.content.intervals) |->
                    IntervalAsExercise(contrib.content.intervals[i])]
        ELSE <<>>)

RECURSIVE Flatten(_)
Flatten(seqs) ==
    IF seqs = <<>> THEN <<>> ELSE Head(seqs) \o Flatten(Tail(seqs))

\* lines 1108-1113: list.extend over the contributions, in their order
WarmupOf(contribs) == Flatten([i \in 1..Len(contribs) |-> contribs[i].content.warmup])
CooldownOf(contribs) == Flatten([i \in 1..Len(contribs) |-> contribs[i].content.cooldown])

\* lines 1143-1144
SafetyNotesOf(contribs) ==
    Flatten([i \in 1..Len(contribs) |-> contribs[i].content.safety_notes])

\* lines 1148-1155: the entry of key after the mapping m of one contribution
\* met the accumulated mapping acc
MergedEntry(acc, m, key) ==
    IF key \notin DOMAIN m THEN acc[key]
    ELSE IF key \notin DOMAIN acc THEN m[key]
    ELSE IF acc[key].islist /\ m[key].islist
         THEN [islist |-> TRUE, items |-> acc[key].items \o m[key].items]
         ELSE m[key]

\* lines 1146-1155: a 'modifications' value that is no mapping is skipped
MergeModifications(acc, mods) ==
    IF mods.kind # "dict" THEN acc
    ELSE [key \in DOMAIN acc \cup DOMAIN mods.entries |-> MergedEntry(acc, mods.entries, key)]

RECURSIVE ModificationsOf(_, _)
ModificationsOf(contribs, acc) ==
    IF contribs = <<>> THEN acc
    ELSE ModificationsOf(Tail(contribs),
                         MergeModifications(acc, Head(contribs).content.modifications))

\* the mapping f with key bound to value
Put(f, key, value) == [k \in DOMAIN f \cup {key} |-> IF k = key THEN value ELSE f[k]]

\* the contribution list with the list that contribution j holds under key
\* replaced: what list.extend does to the object the contribution shares with
\* the merged mapping
WithItems(contribs, j, key, items) ==
    [contribs EXCEPT ![j].content.modifications.entries[key].items = items]

\* lines 1147-1155 for one key of contribution i. st.mods is the merged mapping,
\* st.owner[key] the contribution whose own object st.mods[key] is (line 1149
\* and line 1155 store the contribution's value itself, not a copy), st.contribs
\* the contributions as they are now. Line 1153 extends the existing list in
\* place, that is the list of the contribution that owns it.
MergeKey(st, i, key, value) ==
    IF key \in DOMAIN st.mods /\ st.mods[key].islist /\ value.islist
    THEN [st EXCEPT !.mods = Put(st.mods, key, [islist |-> TRUE, items |-> st.mods[key].items \o value.items]),
                    !.contribs = WithItems(st.contribs, st.owner[key], key,
                                           st.mods[key].items \o value.items)]
    ELSE [st EXCEPT !.mods = Put(st.mods, key, value), !.owner = Put(st.owner, key, i)]

\* line 1147: the keys of contribution i, which do not interact
RECURSIVE MergeKeys(_, _, _)
MergeKeys(st, i, keys) ==
    IF keys = {} THEN st
    ELSE MergeKeys(MergeKey(st, i, CHOOSE k \in keys : TRUE,
                            st.contribs[i].content.modifications.entries[CHOOSE k \in keys : TRUE]),
                   i, keys \ {CHOOSE k \in keys : TRUE})

\* the keys line 1147 visits: none when 'modifications' is no mapping
ModificationKeys(contrib) ==
    IF contrib.content.modifications.kind = "dict"
    THEN DOMAIN contrib.content.modifications.entries ELSE {}

\* lines 1103-1155 from contribution i on
RECURSIVE MergeFrom(_, _)
MergeFrom(st, i) ==
    IF i > Len(st.contribs) THEN st
    ELSE MergeFrom(MergeKeys(st, i, ModificationKeys(st.contribs[i])), i + 1)

\* the contributions as _fallback_structured_payload leaves them
ContributionsAfterMerge(contribs) ==
    MergeFrom([mods |-> EmptyMap, owner |-> EmptyMap, contribs |-> contribs], 1).contribs

FallbackStructuredPayload(contribs) ==
    [warmup |-> WarmupOf(contribs),
     cooldown |-> CooldownOf(contribs),
     main_workout |-> Flatten([i \in 1..Len(contribs) |-> MainOf(contribs[i])]),
     equipment_needed |->
        UNION {contribs[i].content.recommended_equipment : i \in 1..Len(contribs)},
     safety_notes |-> SafetyNotesOf(contribs),
     modifications |-> [kind |-> "dict", entries |-> ModificationsOf(contribs, EmptyMap)]]

----------------------------------------------------------------------------
(* _build_workout_from_payload *)

\* lines 1177-1180: a target is the parsed value of the plan's allocation
PhaseTarget(seconds) == ParseDurationValue(Num(seconds))

\* lines 1207-1218
PhaseBreakdown(warmup_target, main_target, cooldown_target, warmup_total, main_total, cooldown_total) ==
    [warmup |-> OrInt(warmup_target, warmup_total),
     main |-> OrInt(main_target, main_total),
     cooldown |-> OrInt(cooldown_target, cooldown_total)]

\* lines 1222-1226
EquipmentNeeded(pl, exercises) ==
    IF pl.equipment_needed # {} THEN pl.equipment_needed
    ELSE {exercises[i].equipment : i \in 1..Len(exercises)}

\* line 1235
BuiltMinutes(req, total_estimated) ==
    IF total_estimated # 0
    THEN Max(req.duration_minutes, RoundHalfEven(total_estimated, 60))
    ELSE req.duration_minutes

\* lines 1206-1253, rb being what _rebalance_main_duration left and returned
BuiltWorkout(req, pl, warmup_target, main_target, cooldown_target, w, c, rb) ==
    [warmup |-> w.normalized,
     exercises |-> rb.exercises,
     cooldown |-> c.normalized,
     total_estimated_duration_seconds |-> Some(w.total + rb.current + c.total),
     phase_duration_breakdown |->
        PhaseBreakdown(warmup_target, main_target, cooldown_target,
                       w.total, rb.current, c.total),
     duration_minutes |-> BuiltMinutes(req, w.total + rb.current + c.total),
     equipment_needed |-> EquipmentNeeded(pl, rb.exercises)]

\* lines 1221 and 1257: .items() of a non-empty list raises AttributeError
ModificationsRaise(pl) == pl.modifications.kind = "list"

\* lines 1186-1221, w, m and c being what the three normalizers returned; the
\* rebalance of line 1204 changes no outcome of line 1221
BuildFromNormalized(req, pl, warmup_target, main_target, cooldown_target, w, m, c) ==
    IF w.normalized = <<>>
    THEN [ok |-> FALSE, error |-> "Warm-up phase missing from synthesis",
          workout |-> NoWorkout]
    ELSE IF c.normalized = <<>>
    THEN [ok |-> FALSE, error |-> "Cooldown phase missing from synthesis",
          workout |-> NoWorkout]
    ELSE IF m.normalized = <<>>
    THEN [ok |-> FALSE, error |-> "Main workout phase missing from synthesis",
          workout |-> NoWorkout]
    ELSE IF ModificationsRaise(pl)
    THEN [ok |-> FALSE, error |-> "'list' object has no attribute 'items'",
          workout |-> NoWorkout]
    ELSE [ok |-> TRUE, error |-> "",
          workout |->
            BuiltWorkout(req, pl, warmup_target, main_target, cooldown_target, w, c,
                         RebalanceMainDuration(m.normalized, OrInt(main_target, m.total)))]

\* lines 1182-1198
BuildFromTargets(req, pl, warmup_target, main_target, cooldown_target) ==
    BuildFromNormalized(req, pl, warmup_target, main_target, cooldown_target,
        NormalizePhaseItems(pl.warmup, 300, warmup_target),
        NormalizeMainExercises(pl.main_workout, req.difficulty_level, main_target),
        NormalizePhaseItems(pl.cooldown, 300, cooldown_target))

\* returns the workout, or the message of the exception it raises
BuildWorkoutFromPayload(req, plan, pl) ==
    BuildFromTargets(req, pl,
        PhaseTarget(plan.phase_allocation.warmup),
        PhaseTarget(plan.phase_allocation.main),
        PhaseTarget(plan.phase_allocation.cooldown))

----------------------------------------------------------------------------
(* _synthesize_workout *)

\* lines 1026-1058: the integration answer when it is a non-empty record without
\* an error, the deterministic merge otherwise
FinalPayload(answer, contribs) ==
    IF answer.kind = "dict" THEN answer.payload
    ELSE FallbackStructuredPayload(contribs)

----------------------------------------------------------------------------
(* _validate_and_optimize *)

\* lines 1277-1299: the total is the sum of the breakdown's values (the
\* breakdown _build_workout_from_payload sets always has its three keys)
ValidatedTotal(w) ==
    Some(w.phase_duration_breakdown.warmup + w.phase_duration_breakdown.main
         + w.phase_duration_breakdown.cooldown)

\* str.lower on the equipment names of the model
Lower(name) ==
    CASE name = "Dumbbells" -> "dumbbells"
      [] name = "Kettlebell" -> "kettlebell"
      [] name = "Bodyweight" -> "bodyweight"
      [] OTHER -> name

\* the equipment list left as _build_workout_from_payload set it
EquipmentUnfiltered(equipment_needed, req) == equipment_needed

\* lines 1313-1315
EquipmentAvailable(equipment_needed, req) ==
    {eq \in equipment_needed :
        \/ Lower(eq) \in {Lower(name) : name \in req.available_equipment}
        \/ Lower(eq) = "bodyweight"}

ValidateAndOptimizeOf(w, req) ==
    LET total == ValidatedTotal(w)
        computed_minutes == Max(1, RoundHalfEven(total[1], 60))
    IN  [w EXCEPT
            !.total_estimated_duration_seconds = total,
            !.duration_minutes =
                IF Truthy(total) /\ total[1] > 0
                THEN (IF req.duration_minutes # 0
                      THEN Max(req.duration_minutes, computed_minutes)
                      ELSE computed_minutes)
                ELSE @,
            !.equipment_needed = EquipmentAvailable(@, req)]

----------------------------------------------------------------------------
(* Specification SpecHeuristic: _heuristic_macro_plan on every request     *)

\* duration_minutes accepted by the API (api/ai_generation.py line 643)
MinMinutes == 5
MaxMinutes == 120

WorkoutTypes == {"strength", "cardio", "mixed", "flexibility", "hiit"}
FocusChoices ==
    {<<>>, <<"legs">>, <<"legs", "core">>, <<"legs", "core", "arms">>,
     <<"legs", "core", "arms", "back">>, <<"legs", "legs", "legs">>}

HeuristicInit ==
    /\ pc = "heuristic_start"
    /\ request \in {Request(m, wt, f, "intermediate") :
                       m \in MinMinutes..MaxMinutes, wt \in WorkoutTypes, f \in FocusChoices}
    /\ raw_plan = NoRawPlan
    /\ macro_plan = NoPlan
    /\ plan2 = NoPlan
    /\ plan_contribution = None
    /\ invoked = <<>>
    /\ contributions = <<>>
    /\ general_result = NoGeneralResult
    /\ payload = NoPayload
    /\ workout = NoWorkout
    /\ result = NoResult
    /\ call = NoCall
    /\ ret = NoRet
    /\ generation_tasks = <<>>
    /\ background_tasks = <<>>
    /\ request_history = <<>>

HeuristicMacroPlan ==
    /\ pc = "heuristic_start"
    /\ macro_plan' = HeuristicMacroPlanOf(request)
    /\ pc' = "heuristic_done"
    /\ UNCHANGED <<request, raw_plan, plan2, plan_contribution, invoked, contributions, general_result, payload, workout, result, call, ret>>
    /\ UNCHANGED <<generation_tasks, background_tasks, request_history>>

HeuristicNext == HeuristicMacroPlan

SpecHeuristic == HeuristicInit /\ [][HeuristicNext]_vars

----------------------------------------------------------------------------
(* Specification SpecCoerce: _coerce_macro_plan on the planner's answers   *)

CoerceMinutes == {10, 11, 45}
RawWarmups == {Absent, Num(72), Num(200), Num(10000)}
RawMains == {Absent, Num(10), Num(456), Num(2000)}
RawCooldowns == {Absent, Num(10), Num(72), Num(100), Str(50, "min")}
RawBlockDurations == {Absent, Num(100), Num(228), Str(50, "min")}
RawBlock(d) == [duration_seconds |-> d, focus_areas |-> <<>>, modality |-> ""]

RECURSIVE SeqsUpTo(_, _)
SeqsUpTo(S, n) ==
    IF n = 0 THEN {<<>>}
    ELSE LET shorter == SeqsUpTo(S, n - 1)
         IN  shorter \cup {Append(s, x) : s \in {t \in shorter : Len(t) = n - 1}, x \in S}

RawPlans ==
    {[kind |-> "dict",
      phase_allocation |-> [warmup |-> w, main |-> m, cooldown |-> c],
      main_blocks |-> bs] :
        w \in RawWarmups, m \in RawMains, c \in RawCooldowns,
        bs \in SeqsUpTo({RawBlock(d) : d \in RawBlockDurations}, MaxBlocks)}

CoerceInit ==
    /\ pc = "coerce_start"
    /\ request \in {Request(m, "strength", <<>>, "intermediate") : m \in CoerceMinutes}
    /\ raw_plan \in RawPlans
    /\ macro_plan = NoPlan
    /\ plan2 = NoPlan
    /\ plan_contribution = None
    /\ invoked = <<>>
    /\ contributions = <<>>
    /\ general_result = NoGeneralResult
    /\ payload = NoPayload
    /\ workout = NoWorkout
    /\ result = NoResult
    /\ call = NoCall
    /\ ret = NoRet
    /\ generation_tasks = <<>>
    /\ background_tasks = <<>>
    /\ request_history = <<>>

CoerceMacroPlan ==
    /\ pc = "coerce_start"
    /\ macro_plan' = CoerceMacroPlanOf(raw_plan, request, "program_director")
    /\ pc' = "coerced"
    /\ UNCHANGED <<request, raw_plan, plan2, plan_contribution, invoked, contributions, general_result, payload, workout, result, call, ret>>
    /\ UNCHANGED <<generation_tasks, background_tasks, request_history>>

\* the coerced plan is fed back into the coercion step
CoerceAgain ==
    /\ pc = "coerced"
    /\ plan2' = CoerceMacroPlanOf(AsRawPlan(macro_plan), request, "program_director")
    /\ pc' = "coerced_twice"
    /\ UNCHANGED <<request, raw_plan, macro_plan, plan_contribution, invoked, contributions, general_result, payload, workout, result, call, ret>>
    /\ UNCHANGED <<generation_tasks, background_tasks, request_history>>

CoerceNext == CoerceMacroPlan \/ CoerceAgain

SpecCoerce == CoerceInit /\ [][CoerceNext]_vars

----------------------------------------------------------------------------
(* Specification SpecNormalize: the normalizers and the rebalance step,    *)
(* called on their own with raw records of every shape                     *)

PhaseRawItems ==
    {RawItem(Num(1), Absent, Absent),
     RawItem(Num(30), Absent, Absent),
     RawItem(Num(1000), Absent, Absent),
     RawItem(Absent, Absent, Absent),
     RawItem(Absent, Absent, Num(5)),
     RawItem(Str(20, "min"), Num(60), Absent),
     RawItem(Text, Num(45), Absent),
     NotADict}
PhaseTargets == {None, Some(60), Some(240), Some(324)}

MainRawExercises ==
    {[NoFields EXCEPT !.reps = Str(120, ""), !.sets = Num(3)],
     [NoFields EXCEPT !.work_seconds = Num(40), !.sets = Num(4), !.rest_seconds = Num(20)],
     [NoFields EXCEPT !.reps = Num(10), !.work_seconds = Num(30)],
     NoFields,
     [NoFields EXCEPT !.rounds = Num(6), !.work_interval_seconds = Num(45),
                      !.rest_interval_seconds = Num(15), !.equipment = "jump rope"],
     [NoFields EXCEPT !.reps = Num(8), !.block_duration_seconds = Num(600),
                      !.equipment = "dumbbells"],
     [NoFields EXCEPT !.duration = Str(10, "min")],
     [NoFields EXCEPT !.reps = Num(1)],
     [NoFields EXCEPT !.isdict = FALSE]}
MainTargets == {None, Some(300), Some(456), Some(2052)}
Difficulties == {"beginner"}
RebalanceTargets == {0, 300, 480, 2052}

NormalizeInit ==
    /\ pc = "normalize_start"
    /\ call \in
          {[fn |-> "normalize_phase_items", items |-> its, default_duration |-> 300,
            target_total |-> t] :
                its \in SeqsUpTo(PhaseRawItems, MaxItems), t \in PhaseTargets}
          \cup
          {[fn |-> "normalize_main_exercises", exercises |-> exs, difficulty |-> d,
            target_total |-> t] :
                exs \in SeqsUpTo(MainRawExercises, MaxExercises),
                d \in Difficulties, t \in MainTargets}
    /\ ret = NoRet
    /\ request = Request(45, "strength", <<>>, "intermediate")
    /\ raw_plan = NoRawPlan
    /\ macro_plan = NoPlan
    /\ plan2 = NoPlan
    /\ plan_contribution = None
    /\ invoked = <<>>
    /\ contributions = <<>>
    /\ general_result = NoGeneralResult
    /\ payload = NoPayload
    /\ workout = NoWorkout
    /\ result = NoResult
    /\ generation_tasks = <<>>
    /\ background_tasks = <<>>
    /\ request_history = <<>>

NormalizePhaseItemsCall ==
    /\ pc = "normalize_start"
    /\ call.fn = "normalize_phase_items"
    /\ LET r == NormalizePhaseItems(call.items, call.default_duration, call.target_total)
       IN  ret' = [fn |-> "normalize_phase_items", normalized |-> r.normalized,
                   total |-> r.total]
    /\ pc' = "phase_normalized"
    /\ UNCHANGED <<request, raw_plan, macro_plan, plan2, plan_contribution, invoked, contributions, general_result, payload, workout, result,
                   call>>
    /\ UNCHANGED <<generation_tasks, background_tasks, request_history>>

NormalizeMainExercisesCall ==
    /\ pc = "normalize_start"
    /\ call.fn = "normalize_main_exercises"
    /\ LET r == NormalizeMainExercises(call.exercises, call.difficulty, call.target_total)
       IN  ret' = [fn |-> "normalize_main_exercises", normalized |-> r.normalized,
                   total |-> r.total]
    /\ pc' = "main_normalized"
    /\ UNCHANGED <<request, raw_plan, macro_plan, plan2, plan_contribution, invoked, contributions, general_result, payload, workout, result,
                   call>>
    /\ UNCHANGED <<generation_tasks, background_tasks, request_history>>

\* _rebalance_main_duration on the list the normalizer returned, with the
\* normalizer's target or another one
RebalanceMainDurationCall ==
    /\ pc = "main_normalized"
    /\ \E target \in RebalanceTargets \cup
                     (IF call.target_total = None THEN {} ELSE {call.target_total[1]}) :
          LET r == RebalanceMainDuration(ret.normalized, target)
          IN  ret' = [fn |-> "rebalance_main_duration", before |-> ret.normalized,
                      normalized |-> r.exercises, total |-> r.current, target |-> target]
    /\ pc' = "rebalanced"
    /\ UNCHANGED <<request, raw_plan, macro_plan, plan2, plan_contribution, invoked, contributions, general_result, payload, workout, result,
                   call>>
    /\ UNCHANGED <<generation_tasks, background_tasks, request_history>>

NormalizeNext ==
    NormalizePhaseItemsCall \/ NormalizeMainExercisesCall \/ RebalanceMainDurationCall

SpecNormalize == NormalizeInit /\ [][NormalizeNext]_vars

----------------------------------------------------------------------------
(* Specification Spec: generate_workout, one action per awaited phase       *)

PipelineMinutes == {5, 11, 45}
PipelineRequests ==
    {[Request(m, wt, <<>>, "intermediate") EXCEPT !.available_equipment = eq,
                                                  !.experience_level = xp] :
        m \in PipelineMinutes, wt \in {"strength", "mixed"}, eq \in {{}, {"Dumbbells"}},
        xp \in {"intermediate", "advanced"}}

\* what the planner may do: be absent, answer an error record or a value that is
\* no record, raise, answer a record whose coercion raises, or answer a record
PlannerFailures ==
    {[NoRawPlan EXCEPT !.kind = k] : k \in {"absent", "error", "nondict", "raises"}}
    \cup {[kind |-> "dict",
            phase_allocation |-> [warmup |-> Num(200), main |-> Num(2000), cooldown |-> Num(100)],
            main_blocks |-> <<RawBlock(Num(1000)), NotABlock>>]}
PlannerPlans ==
    {[kind |-> "dict",
      phase_allocation |-> [warmup |-> w, main |-> Num(2000), cooldown |-> Num(100)],
      main_blocks |-> bs] :
        w \in {Num(200), Num(10000)},
        bs \in {<<>>, <<RawBlock(Num(2000))>>, <<RawBlock(Num(1000)), RawBlock(Num(1000))>>}}

WarmupA == <<RawItem(Num(120), Absent, Absent), RawItem(Absent, Num(180), Absent)>>
WarmupB == <<RawItem(Num(1), Absent, Absent), RawItem(Num(1000), Absent, Absent)>>
CooldownA == <<RawItem(Str(30, "min"), Absent, Absent)>>
ExercisesA ==
    <<[NoFields EXCEPT !.reps = Str(120, ""), !.sets = Num(3), !.equipment = "dumbbells"],
      [NoFields EXCEPT !.work_seconds = Num(40), !.sets = Num(4), !.rest_seconds = Num(20)]>>
IntervalsA ==
    <<[rounds |-> Num(6), work_interval_seconds |-> Num(45),
       rest_interval_seconds |-> Num(15)]>>

StrengthContents ==
    {[NoContent EXCEPT !.warmup = wu, !.cooldown = CooldownA, !.exercises = ExercisesA] :
        wu \in {WarmupA, WarmupB}}
    \cup {[NoContent EXCEPT !.exercises = ExercisesA]}
CardioContents ==
    {[NoContent EXCEPT !.warmup = WarmupA, !.cooldown = CooldownA, !.intervals = IntervalsA]}
EquipmentContents ==
    {[NoContent EXCEPT !.recommended_equipment = {"dumbbells", "Kettlebell"}], NoContent}

ContentsOf(agent) ==
    CASE agent = "strength_coach" -> StrengthContents
      [] agent = "cardio_coach" -> CardioContents
      [] OTHER -> EquipmentContents

AgentNames == {"strength_coach", "cardio_coach", "equipment_advisor"}
\* what the call of execute_task in the gathering loop may do: answer a
\* successful TaskResult, answer an unsuccessful one, or raise
TaskResults(agent) ==
    {[kind |-> k, content |-> NoContent] : k \in {"unsuccessful", "raises"}}
    \cup {[kind |-> "ok", content |-> c] : c \in ContentsOf(agent)}
GatherOutcomes ==
    {o \in [AgentNames -> UNION {TaskResults(a) : a \in AgentNames}] :
        \A a \in AgentNames : o[a] \in TaskResults(a)}

\* an integration payload with its three phases
GeneralPayloadA ==
    [NoPayload EXCEPT !.warmup = WarmupA, !.main_workout = ExercisesA, !.cooldown = CooldownA,
                      !.equipment_needed = {"dumbbells", "Bodyweight"}]
\* "modifications": ["use lighter weights"]
ListModifications == [kind |-> "list", entries |-> EmptyMap]

\* what synthesize_workout of the general coach may answer: an error record,
\* an empty record, or a non-empty record without 'error'
GeneralOutcomes ==
    {[kind |-> "error", payload |-> NoPayload],
     [kind |-> "empty", payload |-> NoPayload],
     [kind |-> "dict", payload |-> GeneralPayloadA],
     [kind |-> "dict", payload |-> [GeneralPayloadA EXCEPT !.modifications = ListModifications]],
     [kind |-> "dict",
      payload |-> [GeneralPayloadA EXCEPT !.main_workout = <<>>, !.equipment_needed = {}]]}

\* the agent_name of every contribution of the list
AgentNamesOf(contribs) == [i \in 1..Len(contribs) |-> contribs[i].agent_name]

\* lines 543-558 and 1037-1046: agent_contributions of a successful result: the
\* planner's contribution if any, the specialists', and the general coach's
\* when its answer is a dict without 'error'
AgentsUsed(plan_contrib, contribs, answer) ==
    (IF plan_contrib # None THEN <<"program_director">> ELSE <<>>)
    \o AgentNamesOf(contribs)
    \o (IF answer.kind \in {"dict", "empty"} THEN <<"general_coach">> ELSE <<>>)

\* lines 565-578; "" stands for the None of error_message
SuccessResult(agents_used) ==
    [success |-> TRUE, error_message |-> "", agent_contributions |-> agents_used]

\* lines 588-610
FailureResult(error_message) ==
    [success |-> FALSE, error_message |-> error_message, agent_contributions |-> <<>>]

\* lines 590-604
FailureWorkout ==
    [NoWorkout EXCEPT !.duration_minutes = 0, !.exercises = <<>>, !.warmup = <<>>,
                      !.cooldown = <<>>, !.equipment_needed = {}]

\* the history left as it was
RequestHistoryKept(history, res) == history

\* line 580
RequestHistoryAppend(history, res) == Append(history, res)

Init ==
    /\ pc = "start"
    /\ request \in PipelineRequests
    /\ raw_plan = NoRawPlan
    /\ macro_plan = NoPlan
    /\ plan2 = NoPlan
    /\ plan_contribution = None
    /\ invoked = <<>>
    /\ contributions = <<>>
    /\ general_result = NoGeneralResult
    /\ payload = NoPayload
    /\ workout = NoWorkout
    /\ result = NoResult
    /\ call = NoCall
    /\ ret = NoRet
    /\ generation_tasks = <<>>
    /\ background_tasks = <<>>
    /\ request_history = <<>>

\* lines 96-129
GenerateMacroPlan ==
    /\ pc = "start"
    /\ \E answer \in PlannerFailures \cup PlannerPlans :
          /\ raw_plan' = answer
          /\ macro_plan' = GenerateMacroPlanOf(answer, request).plan
          /\ plan_contribution' = GenerateMacroPlanOf(answer, request).contribution
    /\ pc' = "planned"
    /\ UNCHANGED <<request, plan2, invoked, contributions, general_result, payload, workout,
                   result, call, ret>>
    /\ UNCHANGED <<generation_tasks, background_tasks, request_history>>

\* lines 547-548
GatherContributions ==
    /\ pc = "planned"
    /\ \E outcome \in GatherOutcomes :
          /\ contributions' = GatherAgentContributions(request, outcome).contributions
          /\ invoked' = GatherAgentContributions(request, outcome).invoked
    /\ pc' = "gathered"
    /\ UNCHANGED <<request, raw_plan, macro_plan, plan2, plan_contribution, general_result, payload,
                   workout, result, call, ret>>
    /\ UNCHANGED <<generation_tasks, background_tasks, request_history>>

\* lines 551-556 and 1006-1073; an exception of _build_workout_from_payload ends
\* generate_workout in its except branch (lines 584-610)
SynthesizeWorkout ==
    /\ pc = "gathered"
    /\ \E answer \in GeneralOutcomes :
          LET final_payload == FinalPayload(answer, contributions)
              built == BuildWorkoutFromPayload(request, macro_plan, final_payload)
          IN  /\ general_result' = answer
              /\ contributions' = IF answer.kind = "dict" THEN contributions
                                  ELSE ContributionsAfterMerge(contributions)
              /\ payload' = final_payload
              /\ IF built.ok
                 THEN /\ workout' = built.workout
                      /\ pc' = "synthesized"
                      /\ UNCHANGED result
                 ELSE /\ result' = FailureResult(built.error)
                      /\ pc' = "failed"
                      /\ workout' = FailureWorkout
    /\ UNCHANGED <<request, raw_plan, macro_plan, plan2, plan_contribution, invoked, call, ret>>
    /\ UNCHANGED <<generation_tasks, background_tasks, request_history>>

\* lines 561-582
ValidateAndOptimize ==
    /\ pc = "synthesized"
    /\ workout' = ValidateAndOptimizeOf(workout, request)
    /\ result' = SuccessResult(AgentsUsed(plan_contribution, contributions, general_result))
    /\ request_history' =
          RequestHistoryAppend(request_history,
                               SuccessResult(AgentsUsed(plan_contribution, contributions, general_result)))
    /\ pc' = "done"
    /\ UNCHANGED <<request, raw_plan, macro_plan, plan2, plan_contribution, invoked, contributions, general_result, payload, call, ret>>
    /\ UNCHANGED <<generation_tasks, background_tasks>>

Next == GenerateMacroPlan \/ GatherContributions \/ SynthesizeWorkout \/ ValidateAndOptimize

Spec == Init /\ [][Next]_vars

----------------------------------------------------------------------------
(* Specification SpecMerge: _fallback_structured_payload on a list of       *)
(* contributions and on the same contributions in another order             *)

\* a value of a 'modifications' mapping: one entry that is no list, or a list
OneEntry(item) == [islist |-> FALSE, items |-> <<item>>]
ListOf(items) == [islist |-> TRUE, items |-> items]
Modifications(entries) == [kind |-> "dict", entries |-> entries]

MergeStrengthContents ==
    {[NoContent EXCEPT !.warmup = WarmupA, !.cooldown = CooldownA, !.exercises = ExercisesA,
                       !.safety_notes = <<"keep the back neutral">>,
                       !.modifications = mods] :
        mods \in {NoModifications,
                  Modifications([key \in {"knee_pain"} |-> OneEntry("box squat")]),
                  Modifications([key \in {"knee_pain"} |-> ListOf(<<"box squat">>)])}}
MergeCardioContents ==
    {[NoContent EXCEPT !.warmup = WarmupB, !.intervals = IntervalsA,
                       !.safety_notes = <<"keep the back neutral", "hydrate">>,
                       !.modifications = mods] :
        mods \in {ListModifications,
                  Modifications([key \in {"knee_pain"} |-> OneEntry("low impact")]),
                  Modifications([key \in {"knee_pain", "no_equipment"} |->
                                    ListOf(<<"low impact", "march in place">>)])}}
MergeEquipmentContents ==
    {[NoContent EXCEPT !.recommended_equipment = eq, !.modifications = mods] :
        eq \in {{}, {"dumbbells", "kettlebell"}},
        mods \in {NoModifications,
                  Modifications([key \in {"no_equipment"} |-> ListOf(<<"use a backpack">>)])}}

MergeContentsOf(agent) ==
    CASE agent = "strength_coach" -> MergeStrengthContents
      [] agent = "cardio_coach" -> MergeCardioContents
      [] OTHER -> MergeEquipmentContents

\* the contribution lists the gathering can return: the agents that succeeded,
\* in the order of their invocation
MergeContributionLists ==
    UNION {{[i \in 1..Len(names) |-> [agent_name |-> names[i], content |-> pick[names[i]]]] :
                pick \in {p \in [AgentNames -> UNION {MergeContentsOf(a) : a \in AgentNames}] :
                            \A a \in AgentNames : p[a] \in MergeContentsOf(a)}} :
           names \in {<<"strength_coach", "cardio_coach", "equipment_advisor">>,
                      <<"strength_coach", "cardio_coach">>,
                      <<"cardio_coach", "equipment_advisor">>}}

Orderings(n) == {f \in [1..n -> 1..n] : \A i, j \in 1..n : f[i] = f[j] => i = j}
Reordered(contribs, f) == [i \in 1..Len(contribs) |-> contribs[f[i]]]

MergeInit ==
    /\ pc = "merge_start"
    /\ \E contribs \in MergeContributionLists :
          \E f \in Orderings(Len(contribs)) :
             call = [fn |-> "fallback_structured_payload", contributions |-> contribs,
                     reordered |-> Reordered(contribs, f)]
    /\ ret = NoRet
    /\ request = Request(45, "mixed", <<>>, "intermediate")
    /\ raw_plan = NoRawPlan
    /\ macro_plan = NoPlan
    /\ plan2 = NoPlan
    /\ plan_contribution = None
    /\ invoked = <<>>
    /\ contributions = <<>>
    /\ general_result = NoGeneralResult
    /\ payload = NoPayload
    /\ workout = NoWorkout
    /\ result = NoResult
    /\ generation_tasks = <<>>
    /\ background_tasks = <<>>
    /\ request_history = <<>>

\* lines 1090-1168, once on each of the two orderings
FallbackStructuredPayloadCall ==
    /\ pc = "merge_start"
    /\ ret' = [fn |-> "fallback_structured_payload",
               first |-> FallbackStructuredPayload(call.contributions),
               second |-> FallbackStructuredPayload(call.reordered),
               contributions_after |-> ContributionsAfterMerge(call.contributions)]
    /\ pc' = "merged"
    /\ UNCHANGED <<request, raw_plan, macro_plan, plan2, plan_contribution, invoked,
                   contributions, general_result, payload, workout, result, call>>
    /\ UNCHANGED <<generation_tasks, background_tasks, request_history>>

MergeNext == FallbackStructuredPayloadCall

SpecMerge == MergeInit /\ [][MergeNext]_vars

----------------------------------------------------------------------------
(* Properties                                                               *)

BreakdownSum(w) ==
    w.phase_duration_breakdown.warmup + w.phase_duration_breakdown.main
    + w.phase_duration_breakdown.cooldown

PhaseDurations(items) == [i \in 1..Len(items) |-> items[i].duration]

\* the call rescaled: it had a target and returned at least one record
Rescaled == Truthy(call.target_total) /\ call.target_total[1] > 0 /\ ret.normalized # <<>>

\* C1: on success the three values of phase_duration_breakdown sum to
\* total_estimated_duration_seconds, and that value is the sum of the
\* phase_allocation of the macro plan generate_workout used.
C1_BreakdownMatchesPlan ==
    pc = "done" =>
        /\ workout.total_estimated_duration_seconds = Some(BreakdownSum(workout))
        /\ BreakdownSum(workout) = AllocSum(macro_plan)

\* C2: on success, for duration_minutes in 5..120, the total estimated
\* duration is exactly duration_minutes * 60 seconds.
C2_TotalIsRequestedDuration ==
    (pc = "done" /\ request.duration_minutes \in MinMinutes..MaxMinutes) =>
        workout.total_estimated_duration_seconds = Some(request.duration_minutes * 60)

\* C3: _normalize_phase_items with a positive target and at least one valid
\* item returns durations that sum to the target, and returns the target as
\* the achieved total.
C3_PhaseSumExact ==
    (pc = "phase_normalized" /\ Rescaled) =>
        /\ SumSeq(PhaseDurations(ret.normalized)) = call.target_total[1]
        /\ ret.total = call.target_total[1]

\* C4: _normalize_main_exercises with a positive target and at least one valid
\* exercise returns block durations that sum to the target (the returned total
\* too), and they still do after _rebalance_main_duration with the same target.
C4_MainSumExact ==
    /\ (pc = "main_normalized" /\ Rescaled) =>
            /\ SumSeq(BlocksOf(ret.normalized)) = call.target_total[1]
            /\ ret.total = call.target_total[1]
    /\ (pc = "rebalanced" /\ Rescaled /\ ret.target = call.target_total[1]) =>
            /\ SumSeq(BlocksOf(ret.normalized)) = call.target_total[1]
            /\ ret.total = call.target_total[1]

\* C5: every record _normalize_main_exercises returns has exactly one of reps
\* and work_seconds non-null.
C5_ExactlyOneOfRepsWork ==
    pc = "main_normalized" =>
        \A i \in 1..Len(ret.normalized) :
            (ret.normalized[i].reps = None) # (ret.normalized[i].work_seconds = None)

\* C6: after a rescale no item of _normalize_phase_items lasts less than 20
\* seconds and no exercise of _normalize_main_exercises has a block below 60
\* seconds; every block _rebalance_main_duration rescaled or changed is at
\* least 60 seconds too.
C6_MinimumFloors ==
    /\ (pc = "phase_normalized" /\ Rescaled) =>
            \A i \in 1..Len(ret.normalized) :
                ret.normalized[i].duration >= 20 /\ ret.normalized[i].duration_seconds >= 20
    /\ (pc = "main_normalized" /\ Rescaled) =>
            \A i \in 1..Len(ret.normalized) : ret.normalized[i].block_duration_seconds >= 60
    /\ pc = "rebalanced" =>
            \A i \in 1..Len(ret.normalized) :
                \/ ret.normalized[i].block_duration_seconds >= 60
                \/ /\ ret.normalized[i] = ret.before[i]
                   /\ ~(ret.target > 0 /\ RebalanceApplies(ret.target,
                            CurrentOr1(SumSeq(BlocksOf(ret.before)))))

\* a rebalance that scaled the blocks of a list the normalizer had rescaled,
\* changed one of them and left one on the 60-second floor
C6_Witness ==
    /\ pc = "rebalanced"
    /\ Rescaled
    /\ RebalanceApplies(ret.target, CurrentOr1(SumSeq(BlocksOf(ret.before))))
    /\ \E i \in 1..Len(ret.normalized) :
          ret.normalized[i].block_duration_seconds # ret.before[i].block_duration_seconds
    /\ \E i \in 1..Len(ret.normalized) : ret.normalized[i].block_duration_seconds = 60

\* C7: coercing a coerced plan again changes neither its phase_allocation nor
\* the durations of its main_blocks.
C7_CoercionIdempotent ==
    pc = "coerced_twice" =>
        /\ plan2.phase_allocation = macro_plan.phase_allocation
        /\ [i \in 1..Len(plan2.main_blocks) |-> BlockSeconds(plan2.main_blocks[i])]
           = [i \in 1..Len(macro_plan.main_blocks) |-> BlockSeconds(macro_plan.main_blocks[i])]

\* C8: for duration_minutes in 5..120 the heuristic plan's warmup, main and
\* cooldown sum to total_seconds = max(600, duration_minutes * 60).
C8_HeuristicSumsToTotal ==
    (pc = "heuristic_done" /\ request.duration_minutes \in MinMinutes..MaxMinutes) =>
        /\ AllocSum(macro_plan) = TotalSeconds(request)
        /\ macro_plan.phase_allocation.main
           = TotalSeconds(request) - macro_plan.phase_allocation.warmup
             - macro_plan.phase_allocation.cooldown

\* C9: whatever phase_allocation the planner returned, the coerced
\* phase_allocation sums to total_seconds = max(600, duration_minutes * 60).
C9_CoercedAllocationSumsToTotal ==
    pc \in {"coerced", "coerced_twice"} => AllocSum(macro_plan) = TotalSeconds(request)

\* C10: when the planner returned at least one main block, the coerced block
\* durations sum to the coerced phase_allocation.main.
C10_BlocksSumToMain ==
    (pc \in {"coerced", "coerced_twice"} /\ raw_plan.main_blocks # <<>>) =>
        BlockSum(macro_plan) = macro_plan.phase_allocation.main

\* C11: every macro plan _generate_macro_plan returns, heuristic or coerced,
\* has at least 2 and at most 4 main blocks.
C11_TwoToFourBlocks ==
    pc = "planned" => Len(macro_plan.main_blocks) \in 2..4

\* the messages that name a phase of payload pl whose normalized sequence is empty
EmptyPhaseMessages(req, plan, pl) ==
    (IF NormalizePhaseItems(pl.warmup, 300,
                            PhaseTarget(plan.phase_allocation.warmup)).normalized = <<>>
     THEN {"Warm-up phase missing from synthesis"} ELSE {})
    \cup
    (IF NormalizeMainExercises(pl.main_workout, req.difficulty_level,
                               PhaseTarget(plan.phase_allocation.main)).normalized = <<>>
     THEN {"Main workout phase missing from synthesis"} ELSE {})
    \cup
    (IF NormalizePhaseItems(pl.cooldown, 300,
                            PhaseTarget(plan.phase_allocation.cooldown)).normalized = <<>>
     THEN {"Cooldown phase missing from synthesis"} ELSE {})

\* C12: generate_workout succeeds only with non-empty normalized warmup, main
\* and cooldown; it fails only when one of them is empty, and the error message
\* of the failed result names an empty phase.
C12_OnlyEmptyPhaseFails ==
    /\ pc = "done" =>
            workout.warmup # <<>> /\ workout.exercises # <<>> /\ workout.cooldown # <<>>
    /\ pc = "failed" =>
            result.error_message \in EmptyPhaseMessages(request, macro_plan, payload)

\* C13: with the planner, every specialist and the integration collaborator
\* failing, the 45-minute strength request without equipment still succeeds,
\* with non-empty warmup, main and cooldown, main blocks that sum to the
\* heuristic main allocation 2052 and equipment_needed = {"bodyweight"}.
AllCollaboratorsFail ==
    /\ raw_plan.kind \in {"absent", "error", "nondict", "raises"}
    /\ invoked # <<>>
    /\ \A i \in 1..Len(invoked) : invoked[i].outcome # "ok"
    /\ general_result.kind = "error"

C13_AllFailingStillSucceeds ==
    (/\ pc \in {"done", "failed"}
     /\ AllCollaboratorsFail
     /\ request.duration_minutes = 45
     /\ request.workout_type = "strength"
     /\ request.available_equipment = {}) =>
        /\ pc = "done"
        /\ result.success
        /\ workout.warmup # <<>> /\ workout.exercises # <<>> /\ workout.cooldown # <<>>
        /\ SumSeq(BlocksOf(workout.exercises)) = 2052
        /\ workout.equipment_needed = {"bodyweight"}

\* the planner was absent, answered an error record or a value that is no
\* record, raised, or answered a record whose coercion raises
PlannerFailed ==
    \/ raw_plan.kind \in {"absent", "error", "nondict", "raises"}
    \/ raw_plan.kind = "dict" /\ CoercionRaises(raw_plan)

\* C14: whatever way the planner fails, _generate_macro_plan returns (it does
\* not raise, the request goes on to the gathering), and what it returns is the
\* heuristic plan of the request with no plan contribution.
C14_PlannerFailureIsHeuristic ==
    PlannerFailed =>
        /\ pc \in {"planned", "gathered", "synthesized", "done", "failed"}
        /\ macro_plan = HeuristicMacroPlanOf(request)
        /\ plan_contribution = None

\* the planner's record had a main block that is no record, the coercion
\* raised, and the request went on with the heuristic plan
C14_Witness ==
    /\ pc = "gathered"
    /\ raw_plan.kind = "dict"
    /\ CoercionRaises(raw_plan)
    /\ macro_plan.source = "heuristic_fallback"
    /\ plan_contribution = None

\* the integration answer is an error record, an empty record, or a record
\* without a non-empty warmup, main_workout or cooldown list
IntegrationUnusable ==
    \/ general_result.kind \in {"error", "empty"}
    \/ /\ general_result.kind = "dict"
       /\ \/ general_result.payload.warmup = <<>>
          \/ general_result.payload.main_workout = <<>>
          \/ general_result.payload.cooldown = <<>>

\* C15: when the integration answer is unusable the workout is built from the
\* deterministic merge of the specialist contributions, so that a failure for an
\* empty phase happens only when no contribution has an item for that phase.
C15_UnusableIntegrationFallsBack ==
    (pc \in {"synthesized", "done", "failed"} /\ IntegrationUnusable) =>
        /\ payload = FallbackStructuredPayload(contributions)
        /\ (pc = "failed" /\ result.error_message = "Warm-up phase missing from synthesis")
              => FallbackStructuredPayload(contributions).warmup = <<>>
        /\ (pc = "failed" /\ result.error_message = "Main workout phase missing from synthesis")
              => FallbackStructuredPayload(contributions).main_workout = <<>>
        /\ (pc = "failed" /\ result.error_message = "Cooldown phase missing from synthesis")
              => FallbackStructuredPayload(contributions).cooldown = <<>>

\* the names of the agents execute_task was called on, in the order of the calls
InvokedNames == [i \in 1..Len(invoked) |-> invoked[i].agent_name]
\* the calls that answered a successful TaskResult
InvokedOk == SelectSeq(invoked, LAMBDA call_made : call_made.outcome = "ok")

\* C16: whichever of the invoked specialists fail (unsuccessful result or raised
\* exception), _gather_agent_contributions returns, has called every agent that
\* has a task once, and returns one contribution for each agent that succeeded,
\* in the order of the calls, and none for the others.
C16_FailuresCostOnlyTheirContribution ==
    pc \in {"gathered", "synthesized", "done", "failed"} =>
        /\ InvokedNames = AgentsWithTask(request)
        /\ Len(contributions) = Len(InvokedOk)
        /\ \A i \in 1..Len(contributions) :
              contributions[i].agent_name = InvokedOk[i].agent_name

\* a call that raised and a call that answered success=False were followed by a
\* call that succeeded and gave the only contribution
C16_Witness ==
    /\ pc = "gathered"
    /\ Len(invoked) = 3
    /\ invoked[1].outcome = "raises"
    /\ invoked[2].outcome = "unsuccessful"
    /\ invoked[3].outcome = "ok"
    /\ Len(contributions) = 1
    /\ contributions[1].agent_name = invoked[3].agent_name

\* C17: the specialists invoked during the gathering are those the selection
\* rules of _select_relevant_agents prescribe for the request, each invoked once.
C17_InvokedAreTheSelected ==
    pc \in {"gathered", "synthesized", "done", "failed"} =>
        /\ {invoked[i].agent_name : i \in 1..Len(invoked)}
           = {SelectRelevantAgents(request)[i] : i \in 1..Len(SelectRelevantAgents(request))}
        /\ \A i, j \in 1..Len(invoked) :
              invoked[i].agent_name = invoked[j].agent_name => i = j

\* the multiset of the elements of a sequence
BagOf(seq) ==
    [x \in {seq[i] : i \in 1..Len(seq)} |-> Cardinality({i \in 1..Len(seq) : seq[i] = x})]

\* two 'modifications' mappings with the same keys, each key with the same
\* entries up to their order
SameModifications(m1, m2) ==
    /\ DOMAIN m1.entries = DOMAIN m2.entries
    /\ \A key \in DOMAIN m1.entries :
          BagOf(m1.entries[key].items) = BagOf(m2.entries[key].items)

\* C18: _fallback_structured_payload gives, for two orderings of the same
\* contributions, the same warmup, main_workout and cooldown items as multisets,
\* the same equipment_needed, the same set of safety notes, and the same
\* modifications mapping up to the order of each key's entries.
C18_MergeIsOrderInsensitive ==
    pc = "merged" =>
        /\ BagOf(ret.first.warmup) = BagOf(ret.second.warmup)
        /\ BagOf(ret.first.main_workout) = BagOf(ret.second.main_workout)
        /\ BagOf(ret.first.cooldown) = BagOf(ret.second.cooldown)
        /\ ret.first.equipment_needed = ret.second.equipment_needed
        /\ {ret.first.safety_notes[i] : i \in 1..Len(ret.first.safety_notes)}
           = {ret.second.safety_notes[i] : i \in 1..Len(ret.second.safety_notes)}
        /\ SameModifications(ret.first.modifications, ret.second.modifications)

\* C19: on success each value of phase_duration_breakdown is the exact total of
\* its phase's content (warmup and cooldown item durations, main
\* block_duration_seconds) and total_estimated_duration_seconds is the sum of
\* all those durations.
C19_BreakdownIsContentTotal ==
    pc = "done" =>
        /\ workout.phase_duration_breakdown.warmup = SumSeq(PhaseDurations(workout.warmup))
        /\ workout.phase_duration_breakdown.cooldown = SumSeq(PhaseDurations(workout.cooldown))
        /\ workout.phase_duration_breakdown.main = SumSeq(BlocksOf(workout.exercises))
        /\ workout.total_estimated_duration_seconds
           = Some(SumSeq(PhaseDurations(workout.warmup)) + SumSeq(BlocksOf(workout.exercises))
                  + SumSeq(PhaseDurations(workout.cooldown)))

\* C20: on success every element of equipment_needed is, without regard to
\* case, "bodyweight" or the name of an item of the request's
\* available_equipment, whatever the collaborators recommended.
C20_EquipmentIsAvailable ==
    pc = "done" =>
        \A eq \in workout.equipment_needed :
            \/ Lower(eq) = "bodyweight"
            \/ \E name \in request.available_equipment : Lower(name) = Lower(eq)

\* the merged payload recommended a kettlebell the user does not own and
\* dumbbells the user owns under the name "Dumbbells": the first was dropped,
\* the second kept
C20_Witness ==
    /\ pc = "done"
    /\ "Kettlebell" \in payload.equipment_needed
    /\ "Kettlebell" \notin workout.equipment_needed
    /\ "dumbbells" \in workout.equipment_needed
    /\ request.available_equipment = {"Dumbbells"}

\* C21: for duration_minutes in 5..120 the heuristic plan splits main into
\* blocks of main \div block_count seconds, the first (main % block_count) of
\* them one second longer, so that two blocks differ by at most one second and
\* the blocks sum to phase_allocation.main.
C21_HeuristicBlocksSplitMain ==
    (pc = "heuristic_done" /\ request.duration_minutes \in MinMinutes..MaxMinutes) =>
        /\ \A i \in 1..Len(macro_plan.main_blocks) :
              BlockSeconds(macro_plan.main_blocks[i])
              = (macro_plan.phase_allocation.main \div Len(macro_plan.main_blocks))
                + (IF i <= macro_plan.phase_allocation.main % Len(macro_plan.main_blocks)
                   THEN 1 ELSE 0)
        /\ \A i, j \in 1..Len(macro_plan.main_blocks) :
              BlockSeconds(macro_plan.main_blocks[i]) - BlockSeconds(macro_plan.main_blocks[j]) <= 1
        /\ BlockSum(macro_plan) = macro_plan.phase_allocation.main

\* a plan of three blocks whose main leaves a remainder of two seconds: the
\* first two blocks are one second longer than the third
C21_Witness ==
    /\ pc = "heuristic_done"
    /\ Len(macro_plan.main_blocks) = 3
    /\ macro_plan.phase_allocation.main % 3 = 2
    /\ BlockSeconds(macro_plan.main_blocks[1]) = BlockSeconds(macro_plan.main_blocks[3]) + 1
    /\ BlockSeconds(macro_plan.main_blocks[2]) = BlockSeconds(macro_plan.main_blocks[3]) + 1

\* the number of distinct elements of a sequence
Distinct(seq) == Cardinality({seq[i] : i \in 1..Len(seq)})

\* C22: the heuristic plan has clamp(d, 2, 3) main blocks, d being the number
\* of distinct focus areas of the request (1 for an empty focus list, which
\* stands for full_body).
C22_BlockCountIsDistinctFocus ==
    pc = "heuristic_done" =>
        Len(macro_plan.main_blocks)
        = Max(2, Min(3, IF request.focus_areas = <<>> THEN 1 ELSE Distinct(request.focus_areas)))

\* C23: _fallback_structured_payload leaves the content of every contribution,
\* each list inside its modifications mapping included, as it was before the
\* call.
C23_MergeLeavesContributionsAlone ==
    pc = "merged" => ret.contributions_after = call.contributions

\* a raw minutes field read as minutes: the parsed number times 60, a string
\* that names its unit as the parser reads it
AsMinutes(value) ==
    IF ParseDurationValue(value) = None THEN None
    ELSE IF value.kind = "str" /\ value.unit # "" THEN ParseDurationValue(value)
    ELSE Some(ParseDurationValue(value)[1] * 60)

\* the duration of a raw item by the priority seconds field, minutes field,
\* generic duration field, default
DurationBySecondsFirst(raw, default_duration) ==
    OrInt(ParseDurationValue(raw.duration_seconds),
          OrInt(AsMinutes(raw.duration_minutes),
                OrInt(ParseDurationValue(raw.duration), default_duration)))

\* C24: _normalize_phase_items takes the duration of a raw item from the
\* explicit seconds field first, then from the minutes field read as minutes,
\* then from the generic duration field, and uses default_duration only when
\* each of them is unparseable or zero.
C24_SecondsThenMinutesThenDuration ==
    (pc = "phase_normalized" /\ call.target_total = None) =>
        \A i \in 1..Len(ret.normalized) :
            ret.normalized[i].duration
            = DurationBySecondsFirst(DictsOf(call.items)[i], call.default_duration)

\* the raw exercise has none of the fields a per-set duration is read from
NoDurationField(raw) ==
    /\ raw.work_seconds = Absent /\ raw.work_interval_seconds = Absent
    /\ raw.duration = Absent /\ raw.duration_seconds_per_set = Absent
    /\ raw.duration_seconds = Absent

\* C25: without a target_total, a raw exercise without a duration field and
\* with reps r >= 1 (a number, or a string holding one) comes out with reps = r,
\* work_seconds null and a per-set duration of 4 * r seconds; without reps too
\* its per-set duration is 45 seconds.
C25_FourSecondsPerRep ==
    (pc = "main_normalized" /\ call.target_total = None) =>
        \A i \in 1..Len(ret.normalized) :
            NoDurationField(DictsOf(call.exercises)[i]) =>
                /\ (/\ ExerciseReps(DictsOf(call.exercises)[i]) # None
                    /\ ExerciseReps(DictsOf(call.exercises)[i])[1] >= 1) =>
                        /\ ret.normalized[i].reps = ExerciseReps(DictsOf(call.exercises)[i])
                        /\ ret.normalized[i].work_seconds = None
                        /\ ret.normalized[i].duration_seconds_per_set
                           = 4 * ExerciseReps(DictsOf(call.exercises)[i])[1]
                /\ (/\ DictsOf(call.exercises)[i].reps = Absent
                    /\ DictsOf(call.exercises)[i].rep_range = Absent) =>
                        ret.normalized[i].duration_seconds_per_set = 45

\* exercise i of the rebalance call as lines 498-508 leave it, before the drift
\* loop
BeforeDrift(i) ==
    IF ret.target > 0
       /\ RebalanceApplies(ret.target, CurrentOr1(SumSeq(BlocksOf(ret.before))))
    THEN RebalanceExercise(ret.before[i], ret.target,
                           CurrentOr1(SumSeq(BlocksOf(ret.before)))).block_duration_seconds
    ELSE ret.before[i].block_duration_seconds

\* the least new block duration of a block of d seconds: max(60, round(0.75 * d))
\* less the two seconds of the drift loop, and not below 60
ClampedLow(d) == Max(60, Max(60, RoundHalfEven(3 * d, 4)) - 2)
\* the greatest: max(60, round(1.25 * d)) and the two seconds of the drift loop
ClampedHigh(d) == Max(60, RoundHalfEven(5 * d, 4)) + 2

\* C26: after _rebalance_main_duration every block of prior duration d lies
\* between max(60, round(0.75 * d)) - 2, never below 60, and
\* max(60, round(1.25 * d)) + 2; the drift loop moved no block by more than two
\* seconds; the returned value is the sum of the blocks after the call.
C26_ClampedScaleBounds ==
    pc = "rebalanced" =>
        /\ \A i \in 1..Len(ret.normalized) :
              /\ ret.normalized[i].block_duration_seconds
                 >= ClampedLow(ret.before[i].block_duration_seconds)
              /\ ret.normalized[i].block_duration_seconds
                 <= ClampedHigh(ret.before[i].block_duration_seconds)
              /\ Abs(ret.normalized[i].block_duration_seconds - BeforeDrift(i)) <= 2
        /\ ret.total = SumSeq(BlocksOf(ret.normalized))

\* C26, amended: the same, except that a block shorter than 60 seconds which
\* the call leaves as it was (the target is not positive, or the scale is
\* within 5% of 1 and the drift loop cannot move the block) stays below 60.
C26_ClampedScaleBoundsAbove60 ==
    pc = "rebalanced" =>
        /\ \A i \in 1..Len(ret.normalized) :
              /\ \/ ret.normalized[i].block_duration_seconds
                       >= ClampedLow(ret.before[i].block_duration_seconds)
                 \/ /\ ret.before[i].block_duration_seconds < 60
                    /\ ret.normalized[i] = ret.before[i]
                    /\ ~(ret.target > 0
                         /\ RebalanceApplies(ret.target,
                                             CurrentOr1(SumSeq(BlocksOf(ret.before)))))
              /\ ret.normalized[i].block_duration_seconds
                 <= ClampedHigh(ret.before[i].block_duration_seconds)
              /\ Abs(ret.normalized[i].block_duration_seconds - BeforeDrift(i)) <= 2
        /\ ret.total = SumSeq(BlocksOf(ret.normalized))

\* a rebalance whose scale was clamped to 1.25, that left a block on its
\* greatest value and that moved a block by the two seconds of the drift loop
C26_Witness ==
    /\ pc = "rebalanced"
    /\ 4 * ret.target > 5 * SumSeq(BlocksOf(ret.before))
    /\ \E i \in 1..Len(ret.normalized) :
          ret.normalized[i].block_duration_seconds
          = ClampedHigh(ret.before[i].block_duration_seconds)
    /\ \E i \in 1..Len(ret.normalized) :
          Abs(ret.normalized[i].block_duration_seconds - BeforeDrift(i)) = 2

----------------------------------------------------------------------------
(* api/ai_generation.py: the task store, the background job and its cancellation *)

\* the task ids uuid4 may hand out and the users that call the API
TaskIds == {"task1", "task2"}
Users == {"user1", "user2"}

\* lines 163-172: the record start_workout_generation stores; completed_at is
\* whether the record has the key
StartedTask(user_id) ==
    [status |-> "started", progress |-> 0, user_id |-> user_id, result |-> None,
     error |-> None, completed_at |-> FALSE]

\* lines 201-205
TaskInProgress(task) == [task EXCEPT !.status = "in_progress", !.progress = 10]

\* lines 211-214
TaskConsulting(task) == [task EXCEPT !.progress = 30]

\* lines 224-230
TaskCompleted(task, result_dict) ==
    [task EXCEPT !.status = "completed", !.progress = 100, !.result = Some(result_dict),
                 !.completed_at = TRUE]

\* the failure updates with the status left as it was
TaskFailedStatusKept(task, error_message) ==
    [task EXCEPT !.progress = 0, !.error = Some(error_message), !.completed_at = TRUE]

\* lines 233-239 and 244-250
TaskFailed(task, error_message) ==
    [task EXCEPT !.status = "failed", !.progress = 0, !.error = Some(error_message),
                 !.completed_at = TRUE]

\* lines 513-517
TaskCancelled(task) == [task EXCEPT !.status = "cancelled", !.completed_at = TRUE]

\* how the awaited orchestrator.generate_workout ends: it returns a result that
\* succeeded, returns the failure result of its except branch, or raises
OrchestratorOutcomes ==
    {[kind |-> "returns", success |-> TRUE, error_message |-> ""],
     [kind |-> "returns", success |-> FALSE, error_message |-> "No exercises generated"],
     [kind |-> "raises", success |-> FALSE, error_message |-> "orchestrator error"]}

\* lines 219-250: the record after generate_workout ended with outcome
TaskAfterOutcome(task, outcome) ==
    IF outcome.kind = "raises" THEN TaskFailed(task, outcome.error_message)
    ELSE IF outcome.success THEN TaskCompleted(task, "result.dict()")
    ELSE TaskFailed(task, outcome.error_message)

\* lines 491-517: the status code cancel_generation_task answers with
CancelStatusCode(tasks, task_id, user_id) ==
    IF task_id \notin DOMAIN tasks THEN 404
    ELSE IF tasks[task_id].user_id # user_id THEN 403
    ELSE IF tasks[task_id].status \in {"completed", "failed"} THEN 400
    ELSE 204

JobInit ==
    /\ pc = "serving"
    /\ generation_tasks = <<>>
    /\ background_tasks = <<>>
    /\ request_history = <<>>
    /\ ret = NoRet
    /\ call = NoCall
    /\ request = Request(45, "mixed", <<>>, "intermediate")
    /\ raw_plan = NoRawPlan
    /\ macro_plan = NoPlan
    /\ plan2 = NoPlan
    /\ plan_contribution = None
    /\ invoked = <<>>
    /\ contributions = <<>>
    /\ general_result = NoGeneralResult
    /\ payload = NoPayload
    /\ workout = NoWorkout
    /\ result = NoResult

\* lines 113 and 162-183: a fresh task id, its record and its background job
StartGeneration(task_id, user_id) ==
    /\ task_id \notin DOMAIN generation_tasks
    /\ generation_tasks' = (task_id :> StartedTask(user_id)) @@ generation_tasks
    /\ background_tasks' = (task_id :> "scheduled") @@ background_tasks
    /\ ret' = [fn |-> "start_workout_generation", status_code |-> 200]

\* lines 197-217 up to the await, or to the except branch when get_orchestrator raises
BackgroundBegins(task_id) ==
    /\ task_id \in DOMAIN background_tasks
    /\ background_tasks[task_id] = "scheduled"
    /\ \E orchestrator_raises \in BOOLEAN :
          IF orchestrator_raises
          THEN /\ generation_tasks' =
                     [generation_tasks EXCEPT
                         ![task_id] = TaskFailed(TaskInProgress(@), "orchestrator unavailable")]
               /\ background_tasks' = [background_tasks EXCEPT ![task_id] = "done"]
          ELSE /\ generation_tasks' =
                     [generation_tasks EXCEPT ![task_id] = TaskConsulting(TaskInProgress(@))]
               /\ background_tasks' = [background_tasks EXCEPT ![task_id] = "generating"]
    /\ UNCHANGED ret

\* lines 217-250: the await is over and the job runs to its end
BackgroundEnds(task_id) ==
    /\ task_id \in DOMAIN background_tasks
    /\ background_tasks[task_id] = "generating"
    /\ \E outcome \in OrchestratorOutcomes :
          generation_tasks' =
             [generation_tasks EXCEPT ![task_id] = TaskAfterOutcome(@, outcome)]
    /\ background_tasks' = [background_tasks EXCEPT ![task_id] = "done"]
    /\ UNCHANGED ret

\* lines 477-529
CancelGeneration(task_id, user_id) ==
    /\ generation_tasks' =
          IF CancelStatusCode(generation_tasks, task_id, user_id) = 204
          THEN [generation_tasks EXCEPT ![task_id] = TaskCancelled(@)]
          ELSE generation_tasks
    /\ ret' = [fn |-> "cancel_generation_task",
               status_code |-> CancelStatusCode(generation_tasks, task_id, user_id)]
    /\ UNCHANGED background_tasks

JobUnchanged ==
    UNCHANGED <<pc, request, raw_plan, macro_plan, plan2, plan_contribution, invoked, contributions, general_result, payload, workout, result, call, request_history>>

start_workout_generation ==
    /\ \E task_id \in TaskIds : \E user_id \in Users : StartGeneration(task_id, user_id)
    /\ JobUnchanged

generate_workout_background ==
    /\ \E task_id \in TaskIds : BackgroundBegins(task_id)
    /\ JobUnchanged

generate_workout_returns ==
    /\ \E task_id \in TaskIds : BackgroundEnds(task_id)
    /\ JobUnchanged

cancel_generation_task ==
    /\ \E task_id \in TaskIds : \E user_id \in Users : CancelGeneration(task_id, user_id)
    /\ JobUnchanged

JobNext ==
    \/ start_workout_generation
    \/ generate_workout_background
    \/ generate_workout_returns
    \/ cancel_generation_task

SpecJob == JobInit /\ [][JobNext]_vars

\* the event loop runs every background job it was handed, and the awaited
\* generate_workout ends (it returns or raises)
JobFairness ==
    \A task_id \in TaskIds :
        /\ WF_vars(BackgroundBegins(task_id) /\ JobUnchanged)
        /\ WF_vars(BackgroundEnds(task_id) /\ JobUnchanged)

SpecJobFair == JobInit /\ [][JobNext]_vars /\ JobFairness

TerminalStatuses == {"completed", "failed", "cancelled"}

\* the status get_generation_status reports for task_id, "absent" for its 404
StatusOf(task_id) ==
    IF task_id \in DOMAIN generation_tasks THEN generation_tasks[task_id].status ELSE "absent"

\* C27: a task whose status is cancelled, completed or failed keeps that status
\* in every later step, however cancel_generation_task and the background job
\* of the task interleave.
C27_TerminalStatusesAbsorbing ==
    [][\A task_id \in DOMAIN generation_tasks :
          generation_tasks[task_id].status \in TerminalStatuses
          => generation_tasks'[task_id].status = generation_tasks[task_id].status]_vars

\* C28: every task whose background job was scheduled ends with status
\* completed or failed and keeps it, whether generate_workout returned success,
\* returned failure or raised; a completed task has its result and a failed
\* task has its error.
C28_JobsEndCompletedOrFailed ==
    /\ [](\A task_id \in DOMAIN generation_tasks :
             /\ generation_tasks[task_id].status = "completed"
                => generation_tasks[task_id].result # None
             /\ generation_tasks[task_id].status = "failed"
                => generation_tasks[task_id].error # None)
    /\ \A task_id \in TaskIds :
          (task_id \in DOMAIN background_tasks)
          ~> [](StatusOf(task_id) \in {"completed", "failed"})

\* both background jobs ran to their end: one task is completed with its
\* result, the other is failed with its error
C28_Witness ==
    /\ DOMAIN background_tasks = TaskIds
    /\ \A task_id \in TaskIds : background_tasks[task_id] = "done"
    /\ \E task_id \in TaskIds :
          /\ generation_tasks[task_id].status = "completed"
          /\ generation_tasks[task_id].result # None
    /\ \E task_id \in TaskIds :
          /\ generation_tasks[task_id].status = "failed"
          /\ generation_tasks[task_id].error # None

\* C29: in every macro plan _coerce_macro_plan hands back, the warmup, main
\* and cooldown allocations are all strictly positive.
C29_AllocationsPositive ==
    pc \in {"coerced", "coerced_twice"} =>
        /\ macro_plan.phase_allocation.warmup > 0
        /\ macro_plan.phase_allocation.main > 0
        /\ macro_plan.phase_allocation.cooldown > 0

----------------------------------------------------------------------------
(* Specification SpecHistory: generate_workout called again and again on   *)
(* the one orchestrator get_orchestrator hands out                         *)

\* the requests served, in this order
RequestSequence ==
    <<Request(11, "strength", <<>>, "intermediate"), Request(45, "mixed", <<>>, "intermediate")>>

HistoryInit ==
    /\ pc = "start"
    /\ call = [fn |-> "generate_workout", number |-> 1]
    /\ request = RequestSequence[1]
    /\ raw_plan = NoRawPlan
    /\ macro_plan = NoPlan
    /\ plan2 = NoPlan
    /\ plan_contribution = None
    /\ invoked = <<>>
    /\ contributions = <<>>
    /\ general_result = NoGeneralResult
    /\ payload = NoPayload
    /\ workout = NoWorkout
    /\ result = NoResult
    /\ ret = NoRet
    /\ generation_tasks = <<>>
    /\ background_tasks = <<>>
    /\ request_history = <<>>

\* lines 528-531: the next call of generate_workout, its locals fresh and the
\* orchestrator's request_history as the calls before left it
GenerateWorkoutAgain ==
    /\ pc \in {"done", "failed"}
    /\ call.number < Len(RequestSequence)
    /\ call' = [call EXCEPT !.number = @ + 1]
    /\ request' = RequestSequence[call.number + 1]
    /\ pc' = "start"
    /\ raw_plan' = NoRawPlan
    /\ macro_plan' = NoPlan
    /\ plan_contribution' = None
    /\ invoked' = <<>>
    /\ contributions' = <<>>
    /\ general_result' = NoGeneralResult
    /\ payload' = NoPayload
    /\ workout' = NoWorkout
    /\ result' = NoResult
    /\ UNCHANGED <<plan2, ret, generation_tasks, background_tasks, request_history>>

HistoryNext == Next \/ GenerateWorkoutAgain

SpecHistory == HistoryInit /\ [][HistoryNext]_vars

\* C30: a generate_workout that fails returns a result with success false, a
\* non-empty error_message, a workout whose warmup, exercises and cooldown are
\* empty and no agent_contributions, and leaves request_history as it was; a
\* generate_workout that succeeds appends its result to request_history, and
\* nothing else changes request_history.
C30_FailureResultAndHistory ==
    [][/\ (pc' = "failed" /\ pc # "failed") =>
             /\ ~result'.success
             /\ result'.error_message # ""
             /\ workout'.warmup = <<>>
             /\ workout'.exercises = <<>>
             /\ workout'.cooldown = <<>>
             /\ result'.agent_contributions = <<>>
             /\ request_history' = request_history
       /\ (pc' = "done" /\ pc # "done") =>
             /\ result'.success
             /\ request_history' = Append(request_history, result')
       /\ (pc' \notin {"failed", "done"}) => request_history' = request_history]_vars

\* the second generation failed after the first succeeded: the history still
\* holds the one successful result
C30_Witness ==
    /\ pc = "failed"
    /\ call = [fn |-> "generate_workout", number |-> 2]
    /\ ~result.success
    /\ Len(request_history) = 1
    /\ request_history[1].success
====
